---- MODULE Spec2Model ----
(***************************************************************************)
(* Model of darts/utils/statistics.py: the seasonality test                *)
(* (check_seasonality, _bartlett_formula) and the decomposition / removal  *)
(* pipeline (extract_trend_and_seasonality, remove_from_series,            *)
(* remove_seasonality, remove_trend).                                      *)
(*                                                                         *)
(* Every function is pure.  A behaviour is one call: Init draws the        *)
(* arguments, the action of the function runs the whole body and records   *)
(* the outcome (a returned value or a raised exception) together with the  *)
(* calls it made to its external collaborators.                            *)
(*                                                                         *)
(* Numbers.  Autocorrelations are exact rationals k / RDen.  The standard  *)
(* error is a square root, so _bartlett_formula yields the radicand as a   *)
(* fraction and the comparison of line 94 is decided exactly by sign       *)
(* analysis and squaring.  Series values in the removal pipeline are       *)
(* binary floating-point numbers of Precision significant bits with        *)
(* round-to-nearest-even, the arithmetic of numpy float64 at a smaller     *)
(* precision.                                                              *)
(***************************************************************************)
EXTENDS Integers, Sequences, FiniteSets

VARIABLES pc, args, result, trace

vars == <<pc, args, result, trace>>

(***************************************************************************)
(* Bounds of the model.                                                    *)
(***************************************************************************)
MaxLag == 5
MaxLen == 6
MaxR == 4
MaxN == 2
Precision == 3

(***************************************************************************)
(* Generic helpers.                                                        *)
(***************************************************************************)
Abs(x) == IF x < 0 THEN -x ELSE x

Min(a, b) == IF a < b THEN a ELSE b

Max(a, b) == IF a > b THEN a ELSE b

RECURSIVE SumSeq(_)
SumSeq(s) == IF s = <<>> THEN 0 ELSE Head(s) + SumSeq(Tail(s))

SumSq(s) == SumSeq([i \in DOMAIN s |-> s[i] * s[i]])

SetMin(S) == CHOOSE x \in S : \A y \in S : x <= y

RECURSIVE Ascending(_)
Ascending(S) == IF S = {} THEN <<>> ELSE <<SetMin(S)>> \o Ascending(S \ {SetMin(S)})

Range(s) == {s[i] : i \in DOMAIN s}

(***************************************************************************)
(* Outcomes of a call.                                                     *)
(***************************************************************************)
NoValue == [season |-> FALSE, period |-> 0]

Return(v) == [kind |-> "return", exc |-> "", line |-> 0, value |-> v]

Raise(e, l) == [kind |-> "raise", exc |-> e, line |-> l, value |-> NoValue]

Pending == [kind |-> "pending", exc |-> "", line |-> 0, value |-> NoValue]

(***************************************************************************)
(* Python values of the optional period argument: None, an int, or a       *)
(* float given in halves (num / 2).                                        *)
(***************************************************************************)
None == [kind |-> "none", num |-> 0]

PyInt(k) == [kind |-> "int", num |-> k]

PyFloat(h) == [kind |-> "float", num |-> h]

\* Mutant: the lower bound off by one (m < 1).
LessThanTwo_OffByOne(m) == IF m.kind = "float" THEN m.num < 2 ELSE m.num < 1

\* m < 2
LessThanTwo(m) == IF m.kind = "float" THEN m.num < 4 ELSE m.num < 2

\* isinstance(m, int)
IsInstanceInt(m) == m.kind = "int"

\* m > max_lag
GreaterThan(m, max_lag) == IF m.kind = "float" THEN m.num > 2 * max_lag ELSE m.num > max_lag

(***************************************************************************)
(* Collaborators of check_seasonality.                                     *)
(***************************************************************************)
\* Denominator of the autocorrelation values: r[k] stands for r[k] / RDen.
RDen == 2

\* TimeSeries._assert_univariate
assert_univariate(ts) == ts.width = 1

\* Mutant: the number of samples instead of the number of distinct values.
n_unique_Samples(ts) == Len(ts.vals)

\* np.unique(ts.values()).shape[0]
n_unique(ts) == Cardinality(Range(ts.vals))

\* statsmodels acf(x, nlags, fft=False): a vector of nlags + 1 values whose
\* entry 0 is 1.0; autocorrelations lie in [-1, 1].
AcfOutputs(nlags) ==
    {r \in [1..(nlags + 1) -> (-RDen)..RDen] : r[1] = RDen}

\* scipy argrelmax(r)[0]: the 0-based indices that are strictly greater than
\* both neighbours (order 1, mode 'clip': the two end samples never qualify).
\* Mutant: the last sample counts as a maximum when it exceeds its only neighbour.
argrelmax_WithLast(r) ==
    Ascending({k \in 1..(Len(r) - 1) :
                  r[k + 1] > r[k] /\ (k + 2 <= Len(r) => r[k + 1] > r[k + 2])})

argrelmax(r) ==
    Ascending({k \in 1..(Len(r) - 2) : r[k + 1] > r[k] /\ r[k + 1] > r[k + 2]})

\* scipy norm.ppf(1 - alpha / 2) as a fraction <<num, den>>; alpha is given in
\* units of 1/10000 (0.05 -> 1.96, 0.0455 -> 2.00).
norm_ppf(alpha) == IF alpha = 500 THEN <<49, 25>> ELSE <<2, 1>>

\* Python slice s[:k] of a sequence.
SliceTo(s, k) ==
    IF k >= 0 THEN SubSeq(s, 1, Min(k, Len(s)))
    ELSE SubSeq(s, 1, Max(Len(s) + k, 0))

\* Mutant: no special case for m = 1 and the slice taken one element too far.
bartlett_formula_OffByOne(r, m, length) ==
    [num |-> RDen * RDen + 2 * SumSq(SliceTo(r, m)), den |-> length]

(***************************************************************************)
(* _bartlett_formula (lines 99-123).  r holds numerators over RDen; the    *)
(* record <<num, den>> stands for the value sqrt(num / den) / RDen, that   *)
(* is sqrt((1 + 2 * sum((r[i] / RDen)^2)) / length).                       *)
(***************************************************************************)
bartlett_formula(r, m, length) ==
    IF m = 1
    THEN [num |-> RDen * RDen, den |-> length]
    ELSE [num |-> RDen * RDen + 2 * SumSq(SliceTo(r, m - 1)), den |-> length]

(***************************************************************************)
(* check_seasonality (lines 25-96).                                        *)
(***************************************************************************)
\* r.mean() + norm.ppf(1 - alpha / 2) * r.var() as the fraction num / den,
\* den > 0: mean = S1 / (RDen L), var = (L S2 - S1^2) / (RDen L)^2.
band_upper(r, alpha) ==
    LET L  == Len(r)
        S1 == SumSeq(r)
        S2 == SumSq(r)
        z  == norm_ppf(alpha)
    IN [num |-> S1 * RDen * L * z[2] + z[1] * (L * S2 - S1 * S1),
        den |-> RDen * RDen * L * L * z[2]]

\* x > stat * band for x = xnum / RDen, stat = sqrt(stat.num / stat.den) / RDen
\* and band = band.num / band.den: with X = xnum * band.den and Y = band.num
\* the test is X * sqrt(stat.den) > Y * sqrt(stat.num), decided by the signs of
\* X and Y and then by the squares.
ExceedsBand(xnum, stat, band) ==
    LET X == xnum * band.den
        Y == band.num
        P == X * X * stat.den
        Q == Y * Y * stat.num
    IN  IF X >= 0
        THEN IF Y < 0 THEN TRUE ELSE P > Q
        ELSE IF Y >= 0 THEN FALSE ELSE P < Q

\* Mutant: the index shift of r[1:] is not compensated.
Significant_Unshifted(r, candidate, length, alpha) ==
    ExceedsBand(r[candidate + 1], bartlett_formula(r, candidate, length),
                band_upper(r, alpha))

\* Line 94: r[candidate - 1] > stat * band_upper (r is the vector without lag 0).
Significant(r, candidate, length, alpha) ==
    ExceedsBand(r[candidate], bartlett_formula(r, candidate - 1, length),
                band_upper(r, alpha))

\* Lines 64, 73 and 96: return False, 0.
NoSeasonality == [season |-> FALSE, period |-> 0]

\* Lines 92-96: the loop over the candidates from position i on; examined is
\* the list of candidates tested so far.
RECURSIVE SignificanceLoop(_, _, _, _, _, _)
SignificanceLoop(r, candidates, i, length, alpha, examined) ==
    IF i > Len(candidates)
    THEN [result |-> Return(NoSeasonality), examined |-> examined]
    ELSE IF Significant(r, candidates[i], length, alpha)
         THEN [result   |-> Return([season |-> TRUE, period |-> candidates[i]]),
               examined |-> Append(examined, candidates[i])]
         ELSE SignificanceLoop(r, candidates, i + 1, length, alpha,
                               Append(examined, candidates[i]))

NoTrace ==
    [unique |-> 0, acf |-> 0, r |-> <<>>, argrelmax |-> 0, candidates |-> <<>>,
     examined |-> <<>>, op |-> "", decompose |-> 0, series |-> <<>>,
     period |-> <<>>, model |-> "", decomp |-> <<>>, removed |-> 0]

\* Line 55: m is not None and (m < 2 or not isinstance(m, int)).
BadPeriod(m) == m # None /\ (LessThanTwo(m) \/ ~IsInstanceInt(m))

\* Mutant: the period is not checked against max_lag.
PeriodExceedsLag_Unchecked(m, max_lag) == FALSE

\* Line 58: m is not None and m > max_lag.
PeriodExceedsLag(m, max_lag) == m # None /\ GreaterThan(m, max_lag)

\* Line 77: test = m not in candidates.
NotCandidate(m, candidates) == m.num \notin Range(candidates)

\* Mutant: the rejected period is reported as 0.
RejectedPeriod_Zero(m) == [season |-> FALSE, period |-> 0]

\* Line 80: return False, m.
RejectedPeriod(m) == [season |-> FALSE, period |-> m.num]

\* Mutant: the candidate list is not narrowed to the requested period.
RestrictCandidates_Unrestricted(m, candidates) == candidates

\* Lines 75-82: the candidates that go to the significance test.
RestrictCandidates(m, candidates) == IF m # None THEN <<m.num>> ELSE candidates

\* acfOut is what the acf collaborator returns if it is called.
check_seasonality(ts, m, max_lag, alpha, acfOut) ==
    IF ~assert_univariate(ts)
    THEN [result |-> Raise("InvalidArgument", 53), trace |-> NoTrace]
    ELSE IF BadPeriod(m)
    THEN [result |-> Raise("ValueError", 56), trace |-> NoTrace]
    ELSE IF PeriodExceedsLag(m, max_lag)
    THEN [result |-> Raise("ValueError", 59), trace |-> NoTrace]
    ELSE IF n_unique(ts) = 1
    THEN [result |-> Return(NoSeasonality), trace |-> [NoTrace EXCEPT !.unique = 1]]
    ELSE LET r     == acfOut
             found == argrelmax(r)
             tr    == [NoTrace EXCEPT !.unique = 1, !.acf = 1, !.r = r,
                                      !.argrelmax = 1, !.candidates = found]
         IN  IF Len(found) = 0
             THEN [result |-> Return(NoSeasonality), trace |-> tr]
             ELSE IF m # None /\ NotCandidate(m, found)
             THEN [result |-> Return(RejectedPeriod(m)), trace |-> tr]
             ELSE LET loop == SignificanceLoop(Tail(r), RestrictCandidates(m, found), 1,
                                               Len(ts.vals), alpha, <<>>)
                  IN  [result |-> loop.result,
                       trace  |-> [tr EXCEPT !.examined = loop.examined]]

(***************************************************************************)
(* One call of check_seasonality.                                          *)
(***************************************************************************)
\* Series of a given length: the constant ones and a step.
SeriesVals(n) ==
    {[i \in 1..n |-> v] : v \in 0..1} \cup {[i \in 1..n |-> IF i = n THEN 1 ELSE 0]}

Periods == {None} \cup {PyInt(k) : k \in 0..(MaxLag + 1)} \cup {PyFloat(5)}

Alphas == {500, 455}

InitCS ==
    /\ pc = "ready"
    /\ \E max_lag \in 2..MaxLag, w \in 1..2, m \in Periods, alpha \in Alphas :
         \E n \in (max_lag + 1)..MaxLen :
           \E v \in SeriesVals(n) :
             args = [ts |-> [vals |-> v, width |-> w], m |-> m,
                     max_lag |-> max_lag, alpha |-> alpha]
    /\ result = Pending
    /\ trace = NoTrace

CheckSeasonality ==
    /\ pc = "ready"
    /\ \E acfOut \in AcfOutputs(args.max_lag) :
         LET out == check_seasonality(args.ts, args.m, args.max_lag, args.alpha, acfOut)
         IN  /\ result' = out.result
             /\ trace' = out.trace
    /\ pc' = "done"
    /\ UNCHANGED args

NextCS == CheckSeasonality

SpecCS == InitCS /\ [][NextCS]_vars

(***************************************************************************)
(* Properties of check_seasonality, stated on the finished call.           *)
(***************************************************************************)
Done == pc = "done"

Univariate == args.ts.width = 1

ConstantSeries == \A i, j \in DOMAIN args.ts.vals : args.ts.vals[i] = args.ts.vals[j]

\* The period passes the preconditions: an integer with 2 <= period <= max_lag.
ValidPeriod == args.m.kind = "int" /\ args.m.num >= 2 /\ args.m.num <= args.max_lag

\* A period is given and violates a precondition.
InvalidPeriod == args.m.kind # "none" /\ ~ValidPeriod

Verdict(season, period) ==
    result.kind = "return" /\ result.value = [season |-> season, period |-> period]

FailsInvalidArgument ==
    result.kind = "raise" /\ result.exc \in {"ValueError", "InvalidArgument"}

CandidateSet == Range(trace.candidates)

\* The significance test of lag c on the autocorrelation vector of the call:
\* r[c - 1] > standard_error * upper_bound over the vector without lag 0.
PassesTest(c) ==
    LET r1 == Tail(trace.r)
    IN  ExceedsBand(r1[c], bartlett_formula(r1, c - 1, Len(args.ts.vals)),
                    band_upper(r1, args.alpha))

\* C1 as stated: a valid requested period that is not a local-maximum lag of
\* the autocorrelation vector always yields (False, period), also for a
\* constant series and for an empty candidate set.
C1_Original ==
    (Done /\ Univariate /\ ValidPeriod /\ args.m.num \notin CandidateSet)
        => Verdict(FALSE, args.m.num)

\* C1 amended: a valid requested period that is not a candidate yields
\* (False, period) when the series is not constant and the candidate set is
\* not empty; for a constant series or an empty candidate set the verdict is
\* (False, 0).
C1_Amended ==
    (Done /\ Univariate /\ ValidPeriod /\ args.m.num \notin CandidateSet)
        => IF ConstantSeries \/ CandidateSet = {}
           THEN Verdict(FALSE, 0)
           ELSE Verdict(FALSE, args.m.num)

C1_Witness ==
    /\ Done /\ Univariate /\ ValidPeriod /\ ~ConstantSeries
    /\ CandidateSet # {} /\ args.m.num \notin CandidateSet
    /\ Verdict(FALSE, args.m.num)

\* C2 as stated: a constant series yields (False, 0) whatever the requested
\* period is, a period below 2 or above max_lag included.
C2_Original ==
    (Done /\ Univariate /\ ConstantSeries) => Verdict(FALSE, 0)

\* C2 amended: a constant series yields (False, 0) for every period that
\* passes the preconditions (None, or an integer in 2..max_lag); a period that
\* violates them fails with InvalidArgument instead.
C2_Amended ==
    (Done /\ Univariate /\ ConstantSeries)
        => IF InvalidPeriod THEN FailsInvalidArgument ELSE Verdict(FALSE, 0)

C2_Witness ==
    Done /\ Univariate /\ ConstantSeries /\ ValidPeriod /\ Verdict(FALSE, 0)

\* C3: a returned period is the sentinel 0 or lies in 1..max_lag, and a
\* positive verdict never carries the period 0.
C3_PeriodInRange ==
    (Done /\ result.kind = "return")
        => /\ result.value.period \in 0..args.max_lag
           /\ result.value.season => result.value.period # 0

C3_Witness ==
    /\ Done /\ result.kind = "return" /\ result.value.season
    /\ result.value.period \in 1..args.max_lag
    /\ Len(trace.examined) > 1

\* C4: a period that is not an integer, is below 2 or exceeds max_lag makes the
\* call fail with InvalidArgument before the constant-series check, the
\* autocorrelation and the local-maxima search: no verdict is produced.
C4_InvalidPeriodFailsFast ==
    (Done /\ InvalidPeriod)
        => /\ FailsInvalidArgument
           /\ result.value = NoValue
           /\ trace.unique = 0 /\ trace.acf = 0 /\ trace.argrelmax = 0

C4_Witness ==
    /\ Done /\ Univariate /\ ConstantSeries /\ InvalidPeriod
    /\ result.kind = "raise" /\ result.exc = "ValueError"

\* C9: with no requested period and a non-empty candidate set, the candidates
\* are examined in ascending order, the verdict is (True, c) for the smallest
\* candidate c that passes the significance test, nothing after c is examined,
\* and the verdict is (False, 0) if no candidate passes.
C9_FirstMatchWins ==
    (Done /\ Univariate /\ args.m = None /\ CandidateSet # {})
        => LET passing == {c \in CandidateSet : PassesTest(c)}
           IN  IF passing = {}
               THEN Verdict(FALSE, 0) /\ trace.examined = trace.candidates
               ELSE /\ Verdict(TRUE, SetMin(passing))
                    /\ trace.examined =
                         Ascending({c \in CandidateSet : c <= SetMin(passing)})

C9_Witness ==
    /\ Done /\ Univariate /\ args.m = None
    /\ Len(trace.candidates) > 1
    /\ PassesTest(trace.candidates[1])
    /\ PassesTest(trace.candidates[2])
    /\ Verdict(TRUE, trace.candidates[1])
    /\ trace.examined = <<trace.candidates[1]>>

\* C10: a valid requested period p that is a candidate is tested alone: the
\* verdict is (True, p) if p passes the significance test and (False, 0)
\* otherwise, never another lag.
C10_RequestedPeriodOnly ==
    (Done /\ Univariate /\ ValidPeriod /\ args.m.num \in CandidateSet)
        => /\ trace.examined = <<args.m.num>>
           /\ IF PassesTest(args.m.num)
              THEN Verdict(TRUE, args.m.num)
              ELSE Verdict(FALSE, 0)

C10_Witness ==
    /\ Done /\ Univariate /\ ValidPeriod /\ args.m.num \in CandidateSet
    /\ \E q \in CandidateSet : q < args.m.num /\ PassesTest(q)
    /\ ~PassesTest(args.m.num)
    /\ Verdict(FALSE, 0)

(***************************************************************************)
(* One call of _bartlett_formula.                                          *)
(***************************************************************************)
\* Vectors of up to MaxR values k / RDen.
Vectors == UNION {[1..k -> (-RDen)..RDen] : k \in 0..MaxR}

InitBF ==
    /\ pc = "ready"
    /\ \E r \in Vectors, m \in 0..(MaxR + 2), length \in 1..MaxLen :
         args = [r |-> r, m |-> m, length |-> length]
    /\ result = Pending
    /\ trace = NoTrace

BartlettFormula ==
    /\ pc = "ready"
    /\ result' = Return(bartlett_formula(args.r, args.m, args.length))
    /\ pc' = "done"
    /\ UNCHANGED <<args, trace>>

NextBF == BartlettFormula

SpecBF == InitBF /\ [][NextBF]_vars

(***************************************************************************)
(* Properties of _bartlett_formula.  The returned record <<num, den>> is   *)
(* the value sqrt(num / den) / RDen, so its square is num / (den RDen^2).  *)
(***************************************************************************)
\* sum of r[i]^2 over the Python indices i = 0..last that exist in r.
RECURSIVE SquaresThrough(_, _)
SquaresThrough(r, last) ==
    IF last < 0 THEN 0
    ELSE (IF last + 1 <= Len(r) THEN r[last + 1] * r[last + 1] ELSE 0)
         + SquaresThrough(r, last - 1)

\* The square of the returned value equals (1 + 2 * sumsq / RDen^2) / n.
SquareIs(value, sumsq, n) ==
    value.num * n = (RDen * RDen + 2 * sumsq) * value.den

\* r with entry i replaced by v.
Replaced(r, i, v) == [r EXCEPT ![i] = v]

\* C8: bartlett(r, 1, n) = sqrt(1 / n), the general formula with an empty sum;
\* for m > 1 bartlett(r, m, n) = sqrt((1 + 2 * sum of r[i]^2, i = 0..m-2) / n),
\* so entries from index m - 1 on do not matter, and the squared value does
\* not decrease when the magnitude of one of the first m - 1 entries grows.
C8_Bartlett ==
    (Done /\ args.m >= 1)
        => LET r == args.r
               m == args.m
               n == args.length
               grown(i, v) == bartlett_formula(Replaced(r, i, v), m, n)
           IN  /\ m = 1 => SquareIs(result.value, 0, n)
               /\ SquareIs(result.value, SquaresThrough(r, m - 2), n)
               /\ \A i \in DOMAIN r, v \in (-RDen)..RDen :
                    /\ i >= m => grown(i, v) = result.value
                    /\ (i < m /\ Abs(v) >= Abs(r[i]))
                         => grown(i, v).num * result.value.den
                              >= result.value.num * grown(i, v).den
                    /\ (i < m /\ Abs(v) > Abs(r[i]))
                         => grown(i, v) # result.value

C8_Witness ==
    /\ Done /\ args.m > 2 /\ Len(args.r) >= args.m
    /\ args.r[1] # 0 /\ args.r[args.m - 1] # 0 /\ args.r[args.m] # 0
    /\ SquareIs(result.value, SquaresThrough(args.r, args.m - 2), args.length)
    /\ result.value.num > RDen * RDen

(***************************************************************************)
(* Floating-point values of a series: s * 2^e with s odd (or s = e = 0)    *)
(* and |s| < 2^Precision, plus the non-finite results of a division by     *)
(* zero.  Every operation rounds the exact result to the nearest           *)
(* representable value, ties to the even significand.                      *)
(***************************************************************************)
RECURSIVE Pow2(_)
Pow2(k) == IF k <= 0 THEN 1 ELSE 2 * Pow2(k - 1)

Sign(x) == IF x < 0 THEN -1 ELSE IF x > 0 THEN 1 ELSE 0

RECURSIVE Flt(_, _)
Flt(s, e) ==
    IF s = 0 THEN [k |-> "fin", s |-> 0, e |-> 0]
    ELSE IF s % 2 = 0 THEN Flt(s \div 2, e + 1)
    ELSE [k |-> "fin", s |-> s, e |-> e]

Inf(sign) == [k |-> "inf", s |-> sign, e |-> 0]

NaN == [k |-> "nan", s |-> 0, e |-> 0]

\* The float nearest to sign * (N / D) * 2^e, for N > 0 and D > 0.
RECURSIVE RoundPos(_, _, _, _)
RoundPos(sign, N, D, e) ==
    IF N >= Pow2(Precision) * D THEN RoundPos(sign, N, 2 * D, e + 1)
    ELSE IF N < Pow2(Precision - 1) * D THEN RoundPos(sign, 2 * N, D, e - 1)
    ELSE LET q   == N \div D
             rem == N % D
             up  == 2 * rem > D \/ (2 * rem = D /\ q % 2 = 1)
         IN  Flt(sign * (IF up THEN q + 1 ELSE q), e)

\* The float nearest to (p / q) * 2^e, for q > 0.
Round(p, q, e) == IF p = 0 THEN Flt(0, 0) ELSE RoundPos(Sign(p), Abs(p), q, e)

\* x.s * 2^(x.e - low): the value of x in units of 2^low, for low <= x.e.
Units(x, low) == x.s * Pow2(x.e - low)

\* numpy float subtraction and division.
FSub(x, y) ==
    LET low == Min(x.e, y.e) IN Round(Units(x, low) - Units(y, low), 1, low)

FDiv(x, y) ==
    IF y.s = 0
    THEN IF x.s = 0 THEN NaN ELSE Inf(Sign(x.s))
    ELSE Round(x.s * Sign(y.s), Abs(y.s), x.e - y.e)

(***************************************************************************)
(* TimeSeries arithmetic and the decomposition model tags.                 *)
(***************************************************************************)
\* TimeSeries.__sub__ and TimeSeries.__truediv__: elementwise on the values.
TsSub(ts, other) ==
    [vals |-> [i \in DOMAIN ts.vals |-> FSub(ts.vals[i], other.vals[i])],
     width |-> ts.width]

TsDiv(ts, other) ==
    [vals |-> [i \in DOMAIN ts.vals |-> FDiv(ts.vals[i], other.vals[i])],
     width |-> ts.width]

\* ModelMode has the members MULTIPLICATIVE and ADDITIVE, SeasonalityMode has
\* MULTIPLICATIVE, ADDITIVE and NONE.
ModelMode == {[enum |-> "ModelMode", name |-> n] : n \in {"MULTIPLICATIVE", "ADDITIVE"}}

SeasonalityMode ==
    {[enum |-> "SeasonalityMode", name |-> n] : n \in {"MULTIPLICATIVE", "ADDITIVE", "NONE"}}

SeasonalityMode_NONE == [enum |-> "SeasonalityMode", name |-> "NONE"]

\* A value that belongs to neither enumeration (the plain string 'additive').
NotAMode == [enum |-> "str", name |-> "additive"]

\* model.value
EnumValue(model) ==
    IF model.name = "MULTIPLICATIVE" THEN "multiplicative"
    ELSE IF model.name = "ADDITIVE" THEN "additive"
    ELSE "None"

\* Mutant: only ModelMode members are accepted.
IsMode_ModelModeOnly(model) == model \in ModelMode

\* Lines 151 and 188: model in ModelMode or model in SeasonalityMode.
IsMode(model) == model \in ModelMode \/ model \in SeasonalityMode

(***************************************************************************)
(* remove_from_series (lines 163-197).                                     *)
(***************************************************************************)
\* Mutant: the two branches are swapped.
Removal_Swapped(ts, other, model) ==
    IF EnumValue(model) = "multiplicative" THEN Return(TsSub(ts, other))
    ELSE IF EnumValue(model) = "additive" THEN Return(TsDiv(ts, other))
    ELSE Raise("ValueError", 196)

\* Lines 191-197.
Removal(ts, other, model) ==
    IF EnumValue(model) = "multiplicative" THEN Return(TsDiv(ts, other))
    ELSE IF EnumValue(model) = "additive" THEN Return(TsSub(ts, other))
    ELSE Raise("ValueError", 196)

remove_from_series(ts, other, model) ==
    IF ~assert_univariate(ts) THEN Raise("InvalidArgument", 187)
    ELSE IF ~IsMode(model) THEN Raise("ValueError", 188)
    ELSE Removal(ts, other, model)

(***************************************************************************)
(* One call of remove_from_series.                                         *)
(***************************************************************************)
\* Sample values: 0, 7, 0.625, 3 and -2.5.
Values == {Flt(0, 0), Flt(7, 0), Flt(5, -3), Flt(3, 0), Flt(-5, -1)}

Models == ModelMode \cup SeasonalityMode \cup {NotAMode}

InitRF ==
    /\ pc = "ready"
    /\ \E n \in 1..MaxN, w \in 1..2, model \in Models :
         \E v \in [1..n -> Values], o \in [1..n -> Values] :
           args = [ts |-> [vals |-> v, width |-> w],
                   other |-> [vals |-> o, width |-> 1], model |-> model]
    /\ result = Pending
    /\ trace = NoTrace

RemoveFromSeries ==
    /\ pc = "ready"
    /\ result' = remove_from_series(args.ts, args.other, args.model)
    /\ pc' = "done"
    /\ UNCHANGED <<args, trace>>

NextRF == RemoveFromSeries

SpecRF == InitRF /\ [][NextRF]_vars

(***************************************************************************)
(* Properties of remove_from_series.                                       *)
(***************************************************************************)
Additive == args.model \in (ModelMode \cup SeasonalityMode) /\ args.model.name = "ADDITIVE"

Multiplicative ==
    args.model \in (ModelMode \cup SeasonalityMode) /\ args.model.name = "MULTIPLICATIVE"

Indices == DOMAIN args.ts.vals

ReturnsSeries ==
    result.kind = "return" /\ DOMAIN result.value.vals = Indices

\* C5: ADDITIVE gives the elementwise difference ts - other, MULTIPLICATIVE the
\* elementwise quotient ts / other, and every other model tag (NONE, or a value
\* of neither enumeration) fails with InvalidArgument and returns no series.
C5_RemoveFromSeries ==
    (Done /\ Univariate)
        => /\ Additive =>
                /\ ReturnsSeries
                /\ \A i \in Indices :
                     result.value.vals[i] = FSub(args.ts.vals[i], args.other.vals[i])
           /\ Multiplicative =>
                /\ ReturnsSeries
                /\ \A i \in Indices :
                     result.value.vals[i] = FDiv(args.ts.vals[i], args.other.vals[i])
           /\ (~Additive /\ ~Multiplicative) =>
                FailsInvalidArgument /\ result.value = NoValue

C5_Witness ==
    /\ Done /\ Univariate /\ Multiplicative /\ ReturnsSeries
    /\ Len(args.ts.vals) > 1
    /\ \E i, j \in Indices : result.value.vals[i] # result.value.vals[j]
    /\ \A i \in Indices : result.value.vals[i].k = "fin"

\* The inverse operators of the round trip: float addition and multiplication.
FAdd(x, y) ==
    LET low == Min(x.e, y.e) IN Round(Units(x, low) + Units(y, low), 1, low)

FMul(x, y) == Round(x.s * y.s, 1, x.e + y.e)

\* Element i of the series obtained by putting the component back.
Restored(i) ==
    IF Additive THEN FAdd(result.value.vals[i], args.other.vals[i])
    ELSE FMul(result.value.vals[i], args.other.vals[i])

\* The round trip applies: a live model, and a nonzero component if it divides.
RoundTrip ==
    /\ Done /\ Univariate /\ (Additive \/ Multiplicative)
    /\ Multiplicative => \A i \in Indices : args.other.vals[i].s # 0

\* |x - a| <= 2^(2 - Precision) * bound, the values taken in units of 2^low.
Within(x, a, bound, low) ==
    Abs(Units(x, low) - Units(a, low)) * Pow2(Precision) <= 4 * bound

\* C7 as stated: removing a component and putting it back with the inverse
\* operator gives ts back element for element.
C7_Original ==
    RoundTrip => \A i \in Indices : Restored(i) = args.ts.vals[i]

\* C7 amended: the round trip gives ts back within floating-point tolerance:
\* with eps = 2^(1 - Precision), element i of the restored series differs from
\* ts[i] by at most 2 eps (|ts[i]| + |c[i]|) for ADDITIVE and by at most
\* 2 eps |ts[i]| for MULTIPLICATIVE.
C7_Amended ==
    RoundTrip =>
        \A i \in Indices :
            LET a   == args.ts.vals[i]
                c   == args.other.vals[i]
                x   == Restored(i)
                low == Min(x.e, Min(a.e, c.e))
            IN  IF Additive
                THEN Within(x, a, Abs(Units(a, low)) + Abs(Units(c, low)), low)
                ELSE Within(x, a, Abs(Units(a, low)), low)

C7_Witness ==
    /\ RoundTrip /\ Multiplicative
    /\ \E i \in Indices : Restored(i) # args.ts.vals[i]
    /\ \E i \in Indices :
         result.value.vals[i] # args.ts.vals[i] /\ Restored(i) = args.ts.vals[i]

(***************************************************************************)
(* extract_trend_and_seasonality (lines 126-160), remove_seasonality       *)
(* (lines 200-228) and remove_trend (lines 231-255).                       *)
(***************************************************************************)
\* statsmodels seasonal_decompose on a series of n samples: it raises, or it
\* gives a trend and a seasonal array of n samples each.
DecompValues == {Flt(1, 0), Flt(3, 0)}

DecompFailure == [ok |-> FALSE, trend |-> <<>>, seasonal |-> <<>>]

DecompOutcomes(n) ==
    {[ok |-> TRUE, trend |-> t, seasonal |-> se] :
        t \in [1..n -> DecompValues], se \in [1..n -> DecompValues]}
    \cup {DecompFailure}

\* Mutant: the NONE sentinel is never recognised.
IsNone_Never(model) == FALSE

\* Lines 153 and 224: model is SeasonalityMode.NONE.
IsNone(model) == model = SeasonalityMode_NONE

\* TimeSeries.from_times_and_values(ts.time_index, values)
FromTimesAndValues(ts, values) == [vals |-> values, width |-> 1]

\* decomp is what seasonal_decompose does if it is called.
extract_trend_and_seasonality(ts, freq, model, decomp) ==
    IF ~assert_univariate(ts)
    THEN [result |-> Raise("InvalidArgument", 150), trace |-> NoTrace]
    ELSE IF ~IsMode(model)
    THEN [result |-> Raise("ValueError", 151), trace |-> NoTrace]
    ELSE IF IsNone(model)
    THEN [result |-> Raise("ValueError", 153), trace |-> NoTrace]
    ELSE LET tr == [NoTrace EXCEPT !.decompose = 1, !.series = <<ts.vals>>,
                                   !.period = <<freq>>, !.model = EnumValue(model),
                                   !.decomp = <<decomp>>]
         IN  IF ~decomp.ok
             THEN [result |-> Raise("ValueError", 155), trace |-> tr]
             ELSE [result |-> Return([trend  |-> FromTimesAndValues(ts, decomp.trend),
                                      season |-> FromTimesAndValues(ts, decomp.seasonal)]),
                   trace  |-> tr]

\* Mutant: the pair (trend, season) is unpacked in the wrong order.
SeasonalityOf_First(pair) == pair.trend

\* Line 226: _, seasonality = extract_trend_and_seasonality(ts, freq, model).
SeasonalityOf(pair) == pair.season

\* Line 253: trend, _ = extract_trend_and_seasonality(ts, model=model).
TrendOf(pair) == pair.trend

remove_seasonality(ts, freq, model, decomp) ==
    IF ~assert_univariate(ts)
    THEN [result |-> Raise("InvalidArgument", 223), trace |-> NoTrace]
    ELSE IF IsNone(model)
    THEN [result |-> Raise("ValueError", 224), trace |-> NoTrace]
    ELSE LET ex == extract_trend_and_seasonality(ts, freq, model, decomp)
         IN  IF ex.result.kind = "raise"
             THEN ex
             ELSE [result |-> remove_from_series(ts, SeasonalityOf(ex.result.value), model),
                   trace  |-> [ex.trace EXCEPT !.removed = 1]]

remove_trend(ts, model, decomp) ==
    IF ~assert_univariate(ts)
    THEN [result |-> Raise("InvalidArgument", 251), trace |-> NoTrace]
    ELSE LET ex == extract_trend_and_seasonality(ts, None, model, decomp)
         IN  IF ex.result.kind = "raise"
             THEN ex
             ELSE [result |-> remove_from_series(ts, TrendOf(ex.result.value), model),
                   trace  |-> [ex.trace EXCEPT !.removed = 1]]

(***************************************************************************)
(* One call of extract_trend_and_seasonality, remove_seasonality or        *)
(* remove_trend.                                                           *)
(***************************************************************************)
\* Sample values of the decomposed series: 7 and 0.625.
SeriesValues == {Flt(7, 0), Flt(5, -3)}

InitDC ==
    /\ pc = "ready"
    /\ \E n \in 1..MaxN, w \in 1..2, model \in Models, freq \in {None, PyInt(2)} :
         \E v \in [1..n -> SeriesValues] :
           args = [ts |-> [vals |-> v, width |-> w], freq |-> freq, model |-> model]
    /\ result = Pending
    /\ trace = NoTrace

ExtractTrendAndSeasonality ==
    /\ pc = "ready"
    /\ \E decomp \in DecompOutcomes(Len(args.ts.vals)) :
         LET out == extract_trend_and_seasonality(args.ts, args.freq, args.model, decomp)
         IN  /\ result' = out.result
             /\ trace' = [out.trace EXCEPT !.op = "extract_trend_and_seasonality"]
    /\ pc' = "done"
    /\ UNCHANGED args

RemoveSeasonality ==
    /\ pc = "ready"
    /\ \E decomp \in DecompOutcomes(Len(args.ts.vals)) :
         LET out == remove_seasonality(args.ts, args.freq, args.model, decomp)
         IN  /\ result' = out.result
             /\ trace' = [out.trace EXCEPT !.op = "remove_seasonality"]
    /\ pc' = "done"
    /\ UNCHANGED args

RemoveTrend ==
    /\ pc = "ready"
    /\ \E decomp \in DecompOutcomes(Len(args.ts.vals)) :
         LET out == remove_trend(args.ts, args.model, decomp)
         IN  /\ result' = out.result
             /\ trace' = [out.trace EXCEPT !.op = "remove_trend"]
    /\ pc' = "done"
    /\ UNCHANGED args

NextDC == ExtractTrendAndSeasonality \/ RemoveSeasonality \/ RemoveTrend

SpecDC == InitDC /\ [][NextDC]_vars

(***************************************************************************)
(* Properties of the decomposition pipeline.                               *)
(***************************************************************************)
\* C6: the NONE model makes extract_trend_and_seasonality, remove_seasonality
\* and remove_trend fail with InvalidArgument before the decomposition
\* collaborator is called and before any series is combined.
C6_NoneRejected ==
    (Done /\ args.model = SeasonalityMode_NONE)
        => /\ FailsInvalidArgument
           /\ result.value = NoValue
           /\ trace.decompose = 0
           /\ trace.removed = 0

C6_Witness ==
    /\ Done /\ Univariate /\ args.model = SeasonalityMode_NONE
    /\ trace.op = "remove_trend"
    /\ result.kind = "raise" /\ result.exc = "ValueError" /\ result.line = 153
    /\ trace.decompose = 0

\* The decomposition of the call's series with the given period, as the
\* collaborator answered it in this call.
Extracted(period) ==
    extract_trend_and_seasonality(args.ts, period, args.model, trace.decomp[1]).result

\* The wrapper made one decomposition call, on the input series, with the
\* given period and with the model of the call.
DecomposedOnce(period) ==
    /\ trace.decompose = 1
    /\ trace.series = <<args.ts.vals>>
    /\ trace.period = <<period>>
    /\ trace.model = EnumValue(args.model)

\* The outcome is that of removing the given component of the decomposition
\* from the input series with the model of the call; a failure of the
\* decomposition is the failure of the wrapper.
RemovesComponent(ex, component) ==
    IF ex.kind = "raise"
    THEN result = ex /\ trace.removed = 0
    ELSE /\ result = remove_from_series(args.ts, component, args.model)
         /\ trace.removed = 1

\* C11: for a model in {ADDITIVE, MULTIPLICATIVE}, remove_seasonality(ts,
\* period, model) is remove_from_series(ts, S, model) and remove_trend(ts,
\* model) is remove_from_series(ts, T, model), with (T, S) the decomposition of
\* ts under the same model, for remove_trend always without a period; each
\* wrapper calls the decomposition exactly once, on the unchanged input series.
C11_Wrappers ==
    (Done /\ Univariate /\ (Additive \/ Multiplicative))
        => /\ trace.op = "remove_seasonality" =>
                /\ DecomposedOnce(args.freq)
                /\ RemovesComponent(Extracted(args.freq), Extracted(args.freq).value.season)
           /\ trace.op = "remove_trend" =>
                /\ DecomposedOnce(None)
                /\ RemovesComponent(Extracted(None), Extracted(None).value.trend)

C11_Witness ==
    /\ Done /\ Univariate /\ Multiplicative
    /\ trace.op = "remove_seasonality" /\ args.freq # None
    /\ trace.decompose = 1 /\ trace.removed = 1
    /\ trace.decomp[1].ok /\ trace.decomp[1].trend # trace.decomp[1].seasonal
    /\ result.kind = "return"
    /\ result.value = TsDiv(args.ts, [vals |-> trace.decomp[1].seasonal, width |-> 1])
    /\ result.value # TsDiv(args.ts, [vals |-> trace.decomp[1].trend, width |-> 1])

\* The call asks for the period max_lag itself.
RequestsMaxLag == args.m = PyInt(args.max_lag)

\* The autocorrelation at lag k strictly exceeds both neighbouring lags.
StrictPeak(k) == trace.r[k + 1] > trace.r[k] /\ trace.r[k + 1] > trace.r[k + 2]

\* C12: the candidate lags lie in 1..max_lag - 1 and each is a strict peak of
\* the autocorrelation (no plateau lag); a call that requests the period
\* max_lag returns a negative verdict whatever the series, and no call
\* returns (True, max_lag).
C12_MaxLagNeverSeasonal ==
    Done => /\ CandidateSet \subseteq 1..(args.max_lag - 1)
            /\ \A k \in CandidateSet : StrictPeak(k)
            /\ (Univariate /\ RequestsMaxLag)
                   => Verdict(FALSE, 0) \/ Verdict(FALSE, args.max_lag)
            /\ ~Verdict(TRUE, args.max_lag)

\* The requested period is max_lag, the autocorrelation rises into its last
\* lag, other lags are candidates, and the period is rejected.
C12_Witness ==
    /\ Done /\ Univariate /\ RequestsMaxLag
    /\ trace.argrelmax = 1 /\ CandidateSet # {}
    /\ trace.r[args.max_lag + 1] > trace.r[args.max_lag]
    /\ \A k \in 2..args.max_lag : trace.r[args.max_lag + 1] >= trace.r[k]
    /\ Verdict(FALSE, args.max_lag)

====
